---- MODULE Spec2Model ----
(***************************************************************************)
(* Hayseed All-In-One (src/app.py): the scrape / score / cache / serve     *)
(* cycle.  Text is modelled as sequences of one-character strings so that  *)
(* str.lower(), the `in` substring test and the regular expressions of the *)
(* source are computed rather than assumed.                                *)
(***************************************************************************)
EXTENDS Integers, Sequences, FiniteSets, TLC

VARIABLES
    data_cache,   \* the module-level dict of lines 14-20
    clock,        \* what datetime.now() returns
    pc,           \* position of the process: startup event, schedule_scrapers, serving
    run_pc,       \* position of the run_all_scrapers call in progress, or "idle"
    run_now,      \* the local `now` of that call
    arg,          \* the argument of a function called on its own
    ret           \* the response or return value just produced

vars == <<data_cache, clock, pc, run_pc, run_now, arg, ret>>

(***************************************************************************)
(* Evaluation helpers: a value computed once and then named, and a list    *)
(* whose elements are computed once.                                       *)
(***************************************************************************)
with(v, F(_)) == CHOOSE r \in {F(x) : x \in {v}} : TRUE
list(f) == << >> \o f

(***************************************************************************)
(* Text                                                                    *)
(***************************************************************************)
UpperCase == <<"A","B","C","D","E","F","G","H","I","J","K","L","M","N","O","P","Q","R","S","T","U","V","W","X","Y","Z">>
LowerCase == <<"a","b","c","d","e","f","g","h","i","j","k","l","m","n","o","p","q","r","s","t","u","v","w","x","y","z">>
DigitChars == <<"0","1","2","3","4","5","6","7","8","9">>
Digits == {DigitChars[i] : i \in 1..10}
Letters == {UpperCase[i] : i \in 1..26} \cup {LowerCase[i] : i \in 1..26}
EmptyStr == << >>

\* the lower-case form of each upper-case letter
LowerOf == [c \in {UpperCase[i] : i \in 1..26} |-> LowerCase[CHOOSE i \in 1..26 : UpperCase[i] = c]]

\* one character of str.lower()
lower_char(c) == IF c \in DOMAIN LowerOf THEN LowerOf[c] ELSE c

\* str.lower()
lower(s) == with(s, LAMBDA x : list([i \in 1..Len(x) |-> lower_char(x[i])]))

\* Python's `w in v` on strings: w occurs in v as a contiguous substring
contains(v, w) ==
    \E x \in {v}, y \in {w} : \E i \in 1..(Len(x) - Len(y) + 1) : SubSeq(x, i, i + Len(y) - 1) = y

\* dict.get(key, default)
get(d, key, default) == IF key \in DOMAIN d THEN d[key] ELSE default

is_digit(c) == c \in Digits
is_letter(c) == c \in Letters
is_space(c) == c \in {" ", "\t", "\n"}
\* \w of the re module
is_word(c) == is_digit(c) \/ is_letter(c) \/ c = "_"

\* the least and the greatest element of a non-empty set of integers
least(S) == with(S, LAMBDA T : CHOOSE x \in T : \A y \in T : x <= y)
greatest(S) == with(S, LAMBDA T : CHOOSE x \in T : \A y \in T : x >= y)
min2(a, b) == IF a < b THEN a ELSE b

RECURSIVE int_str(_)
\* str(n) / f'{n}' for n >= 0
int_str(n) == IF n < 10 THEN <<DigitChars[n + 1]>>
              ELSE int_str(n \div 10) \o <<DigitChars[(n % 10) + 1]>>

\* three digits, zero-filled
pad3(n) == <<DigitChars[(n \div 100) + 1], DigitChars[((n \div 10) % 10) + 1], DigitChars[(n % 10) + 1]>>

RECURSIVE comma_str(_)
\* f'{n:,}' for n >= 0
comma_str(n) == IF n < 1000 THEN int_str(n)
                ELSE comma_str(n \div 1000) \o <<",">> \o pad3(n % 1000)

\* str.strip()
strip(s) ==
    with(s, LAMBDA x :
        with({i \in 1..Len(x) : ~ is_space(x[i])}, LAMBDA keep :
            IF keep = {} THEN EmptyStr ELSE SubSeq(x, least(keep), greatest(keep))))

\* s[:n]
prefix(s, n) == with(s, LAMBDA x : SubSeq(x, 1, min2(Len(x), n)))

\* extract_zip: re.search(r'\b\d{5}\b', addr), leftmost match or ''
extract_zip(addr) ==
    with(addr, LAMBDA a :
        with({i \in 1..(Len(a) - 4) :
                 /\ \A k \in i..(i + 4) : is_digit(a[k])
                 /\ (i = 1 \/ ~ is_word(a[i - 1]))
                 /\ (i + 4 = Len(a) \/ ~ is_word(a[i + 5]))},
             LAMBDA starts :
                 IF starts = {} THEN EmptyStr ELSE SubSeq(a, least(starts), least(starts) + 4)))

RECURSIVE digit_run_end(_, _)
\* last index of the run of digits that starts at i (i - 1: the run is empty)
digit_run_end(s, i) ==
    IF i <= Len(s) /\ is_digit(s[i]) THEN digit_run_end(s, i + 1) ELSE i - 1
RECURSIVE name_run_end(_, _)
\* the same for the class [A-Z\s] under re.IGNORECASE
name_run_end(s, i) ==
    IF i <= Len(s) /\ (is_letter(s[i]) \/ is_space(s[i])) THEN name_run_end(s, i + 1) ELSE i - 1
RECURSIVE amount_run_end(_, _)
\* the same for the class [\d,]
amount_run_end(s, i) ==
    IF i <= Len(s) /\ (is_digit(s[i]) \/ s[i] = ",") THEN amount_run_end(s, i + 1) ELSE i - 1

\* the match of r'\d+\s+[A-Z\s]+(?:suffixes)' with re.IGNORECASE that starts at i of s,
\* as <<first, last>>, or << >>: the greedy [A-Z\s]+ gives back characters until one of
\* the alternatives, tried in their order, matches.  low is s in lower case and the
\* suffixes are given in lower case.
street_match_at(s, low, i, suffixes) ==
    IF ~ is_digit(s[i]) THEN << >>
    ELSE with(digit_run_end(s, i), LAMBDA e :
             IF e + 1 > Len(s) \/ ~ is_space(s[e + 1]) THEN << >>
             ELSE LET fits(q, k) == /\ q + Len(suffixes[k]) - 1 <= Len(s)
                                    /\ SubSeq(low, q, q + Len(suffixes[k]) - 1) = suffixes[k]
                  IN  with({q \in (e + 3)..name_run_end(s, e + 1) : \E k \in 1..Len(suffixes) : fits(q, k)},
                           LAMBDA ps :
                               IF ps = {} THEN << >>
                               ELSE with(greatest(ps), LAMBDA q :
                                        <<i, q + Len(suffixes[least({k \in 1..Len(suffixes) : fits(q, k)})]) - 1>>)))

\* re.search of that pattern: the leftmost match, as the matched text in a 1-tuple, or << >>
street_search(s, suffixes) ==
    \* each suffix literal in lower case, for the comparison under re.IGNORECASE
    with(list([k \in 1..Len(suffixes) |-> lower(suffixes[k])]), LAMBDA sfx :
    with(s, LAMBDA x :
    with(lower(x), LAMBDA low :
    with({i \in 1..Len(x) : street_match_at(x, low, i, sfx) # << >>}, LAMBDA starts :
        IF starts = {} THEN << >>
        ELSE with(street_match_at(x, low, least(starts), sfx), LAMBDA mt : <<SubSeq(x, mt[1], mt[2])>>)))))

\* re.search(r'\$[\d,]+\.?\d*', line): the matched text in a 1-tuple, or << >>
amount_search(s) ==
    with(s, LAMBDA x :
    with({i \in 1..(Len(x) - 1) : x[i] = "$" /\ (is_digit(x[i + 1]) \/ x[i + 1] = ",")}, LAMBDA starts :
        IF starts = {} THEN << >>
        ELSE with(least(starts), LAMBDA i :
             with(amount_run_end(x, i + 1), LAMBDA e :
                 <<SubSeq(x, i, IF e + 1 <= Len(x) /\ x[e + 1] = "." THEN digit_run_end(x, e + 2) ELSE e)>>))))

LegalSuffixes == <<<<"S","T","R","E","E","T">>, <<"S","T">>, <<"A","V","E","N","U","E">>, <<"A","V","E">>, <<"D","R","I","V","E">>, <<"D","R">>, <<"R","O","A","D">>, <<"R","D">>, <<"L","A","N","E">>, <<"L","N">>, <<"B","O","U","L","E","V","A","R","D">>, <<"B","L","V","D">>, <<"C","O","U","R","T">>, <<"C","T">>>>
TaxSuffixes == <<<<"S","T">>, <<"A","V","E">>, <<"D","R">>, <<"R","D">>, <<"L","N">>, <<"B","L","V","D">>, <<"C","T">>>>
sfx_louisville == <<","," ","L","o","u","i","s","v","i","l","l","e",","," ","K","Y">>

\* extract_address_from_legal: the matched text, stripped, plus the city, in a 1-tuple;
\* << >> stands for None
extract_address_from_legal(legal_desc) ==
    with(street_search(legal_desc, LegalSuffixes), LAMBDA mt :
        IF mt # << >> THEN <<strip(mt[1]) \o sfx_louisville>> ELSE << >>)

(***************************************************************************)
(* String literals                                                         *)
(***************************************************************************)
\* the keyword literals of calc_score
\* the keyword literals of calc_score
kw_structural == <<"s","t","r","u","c","t","u","r","a","l">>
kw_unsafe == <<"u","n","s","a","f","e">>
kw_condemned == <<"c","o","n","d","e","m","n","e","d">>
kw_fire == <<"f","i","r","e">>
kw_electrical == <<"e","l","e","c","t","r","i","c","a","l">>
kw_hazard == <<"h","a","z","a","r","d">>
kw_overgrown == <<"o","v","e","r","g","r","o","w","n">>
kw_trash == <<"t","r","a","s","h">>
kw_vacant == <<"v","a","c","a","n","t">>

\* further keywords, named by the documentation of the Scorer only
kw_collapse == <<"c","o","l","l","a","p","s","e">>
kw_foundation == <<"f","o","u","n","d","a","t","i","o","n">>
kw_health == <<"h","e","a","l","t","h">>
kw_mold == <<"m","o","l","d">>
kw_debris == <<"d","e","b","r","i","s">>
kw_abandoned == <<"a","b","a","n","d","o","n","e","d">>
kw_plumbing == <<"p","l","u","m","b","i","n","g">>
kw_roof == <<"r","o","o","f">>
kw_exterior == <<"e","x","t","e","r","i","o","r">>
kw_open == <<"o","p","e","n">>
kw_active == <<"a","c","t","i","v","e">>
kw_pending == <<"p","e","n","d","i","n","g">>

\* violation descriptions, case statuses and addresses the API is taken to return
txt_StructuralUnsafe == <<"S","t","r","u","c","t","u","r","a","l"," ","D","a","m","a","g","e"," ","-"," ","U","n","s","a","f","e"," ","B","u","i","l","d","i","n","g">>
txt_CONDEMNED == <<"C","O","N","D","E","M","N","E","D">>
txt_Collapse == <<"R","o","o","f"," ","c","o","l","l","a","p","s","e">>
txt_Foundation == <<"F","o","u","n","d","a","t","i","o","n"," ","c","r","a","c","k">>
txt_FireStructural == <<"F","i","r","e"," ","d","a","m","a","g","e",","," ","s","t","r","u","c","t","u","r","a","l">>
txt_Electrical == <<"e","l","e","c","t","r","i","c","a","l">>
txt_HAZARD == <<"H","A","Z","A","R","D">>
txt_Health == <<"H","e","a","l","t","h">>
txt_Mold == <<"M","o","l","d">>
txt_OvergrownFire == <<"O","v","e","r","g","r","o","w","n"," ","l","o","t"," ","f","i","r","e"," ","r","i","s","k">>
txt_Trash == <<"T","r","a","s","h">>
txt_Debris == <<"D","e","b","r","i","s">>
txt_Vacant == <<"V","A","C","A","N","T"," ","l","o","t">>
txt_Abandoned == <<"A","b","a","n","d","o","n","e","d"," ","c","a","r">>
txt_Plumbing == <<"P","l","u","m","b","i","n","g">>
txt_Exterior == <<"E","x","t","e","r","i","o","r"," ","p","a","i","n","t">>
txt_Signage == <<"S","i","g","n","a","g","e">>
txt_NA == <<"N","/","A">>
st_Open == <<"O","p","e","n">>
st_ACTIVE == <<"A","C","T","I","V","E">>
st_pending == <<"p","e","n","d","i","n","g">>
st_Closed == <<"C","l","o","s","e","d">>
st_Unknown == <<"U","n","k","n","o","w","n">>
addr_Main == <<"1","2","3","4"," ","M","a","i","n"," ","S","t",","," ","L","o","u","i","s","v","i","l","l","e",","," ","K","Y"," ","4","0","2","1","1">>
addr_Oak == <<"7","7"," ","O","A","K"," ","A","V","E"," ","4","0","2","1","1","1">>
addr_NA == <<"N","/","A">>

Texts == {txt_StructuralUnsafe, txt_CONDEMNED, txt_Collapse, txt_Foundation, txt_FireStructural,
          txt_Electrical, txt_HAZARD, txt_Health, txt_Mold, txt_OvergrownFire, txt_Trash,
          txt_Debris, txt_Vacant, txt_Abandoned, txt_Plumbing, txt_Exterior, txt_Signage, txt_NA}
Statuses == {st_Open, st_ACTIVE, st_pending, st_Closed, st_Unknown}

str_Unknown == <<"U","n","k","n","o","w","n">>
str_NA == txt_NA
str_city_zip == <<","," ","L","o","u","i","s","v","i","l","l","e",","," ","K","Y"," ">>
str_Owner == <<"O","w","n","e","r"," ">>
str_Bank == <<"B","a","n","k"," ">>
str_LisPendens == <<"L","i","s"," ","P","e","n","d","e","n","s">>
str_SeeDocument == <<"S","e","e"," ","D","o","c","u","m","e","n","t">>
str_SeeRecord == <<"S","e","e"," ","R","e","c","o","r","d">>
str_RealEstatePDF == <<"R","e","a","l"," ","E","s","t","a","t","e"," ","P","D","F">>
str_TaxRecords == <<"T","a","x"," ","R","e","c","o","r","d","s">>
str_year == <<" ","y","e","a","r">>
str_property == <<" ","p","r","o","p","e","r","t","y">>

(***************************************************************************)
(* Scorer                                                                  *)
(***************************************************************************)
\* any(w in v for w in words)
any_in(v, words) == \E k \in 1..Len(words) : contains(v, words[k])

calc_score(attrs) ==
    with(lower(get(attrs, "VIOLATION_CODE_DESCRIPTION", EmptyStr)), LAMBDA v :
        IF any_in(v, <<kw_structural, kw_unsafe, kw_condemned>>) THEN 9
        ELSE IF any_in(v, <<kw_fire, kw_electrical, kw_hazard>>) THEN 8
        ELSE IF any_in(v, <<kw_overgrown, kw_trash, kw_vacant>>) THEN 6
        ELSE 5)

(***************************************************************************)
(* datetime: a naive local time as its fields; day counts calendar days.   *)
(***************************************************************************)
datetime(d, h, m, s, us) == [day |-> d, hour |-> h, minute |-> m, second |-> s, microsecond |-> us]

\* datetime.__gt__
time_gt(a, b) ==
    \/ a.day > b.day
    \/ a.day = b.day /\ a.hour > b.hour
    \/ a.day = b.day /\ a.hour = b.hour /\ a.minute > b.minute
    \/ a.day = b.day /\ a.hour = b.hour /\ a.minute = b.minute /\ a.second > b.second
    \/ a.day = b.day /\ a.hour = b.hour /\ a.minute = b.minute /\ a.second = b.second
       /\ a.microsecond > b.microsecond

\* now.replace(hour=h, minute=0, second=0): the microsecond field is not named, so it is kept
replace_hms(t, h) == [t EXCEPT !.hour = h, !.minute = 0, !.second = 0]

\* t + timedelta(days=n)
plus_days(t, n) == [t EXCEPT !.day = @ + n]

\* min() of a non-empty list of datetimes
min_time(S) == CHOOSE t \in S : \A u \in S : ~ time_gt(t, u)

\* datetime.isoformat(): the fraction is printed only when it is not zero
isoformat(t) ==
    IF t.microsecond = 0 THEN <<t.day, t.hour, t.minute, t.second>>
    ELSE <<t.day, t.hour, t.minute, t.second, t.microsecond>>

\* strftime('%b %d, %I:%M %p'): month and day, 12-hour clock, minute, AM/PM
strftime_short(t) ==
    <<t.day, IF t.hour % 12 = 0 THEN 12 ELSE t.hour % 12, t.minute, IF t.hour < 12 THEN "AM" ELSE "PM">>

\* strftime('%b %d, %Y') of calendar day d, as text
date_str(d) == IF d < 0 THEN <<"d", "-">> \o int_str(0 - d) ELSE <<"d">> \o int_str(d)

\* the hours of the three cron jobs
CronHours == <<8, 14, 22>>

\* lines 339-346: the value schedule_scrapers stores in data_cache['next_scrape'] when
\* datetime.now() is `now`
next_scrape_at(now) ==
    LET next_times == {replace_hms(now, CronHours[i]) : i \in 1..Len(CronHours)}
        future_times == {t \in next_times : time_gt(t, now)}
    IN  IF future_times # {} THEN min_time(future_times)
        ELSE replace_hms(plus_days(now, 1), 8)

(***************************************************************************)
(* Violations fetcher                                                      *)
(***************************************************************************)
EmptyDict == [k \in {} |-> EmptyStr]
NullJson == [json |-> "null"]

\* format_date: a missing, null or zero timestamp and one int() rejects give 'Unknown';
\* a millisecond timestamp is given by the calendar day it falls on
format_date(ts) ==
    IF ts.json = "number" /\ ts.day # 0 THEN date_str(ts.day) ELSE str_Unknown

\* the dict appended for one feature (lines 47-56)
violation_record(feature) ==
    with(get(feature, "attributes", EmptyDict), LAMBDA attrs :
        [address |-> get(attrs, "SITE_ADDRESS", str_NA),
         violation_type |-> get(attrs, "VIOLATION_CODE_DESCRIPTION", str_NA),
         case_id |-> get(attrs, "CASE_NUMBER", str_NA),
         status |-> get(attrs, "CASE_STATUS", str_Unknown),
         date |-> format_date(get(attrs, "INSPECTION_DATE", NullJson)),
         score |-> calc_score(attrs),
         zip |-> extract_zip(get(attrs, "SITE_ADDRESS", EmptyStr))])

\* a feature that is no JSON object: feature.get raises AttributeError
is_dict(x) == "not_a_dict" \notin DOMAIN x

\* a descending sort that is not stable: records of equal score end in reverse order
sort_by_score_desc_reversed(violations) ==
    with(violations, LAMBDA s :
        LET place(i) == Cardinality({j \in 1..Len(s) : s[j].score > s[i].score})
                        + Cardinality({j \in i..Len(s) : s[j].score = s[i].score})
        IN  list([p \in 1..Len(s) |-> s[CHOOSE i \in 1..Len(s) : place(i) = p]]))

\* list.sort(key=lambda x: x['score'], reverse=True): the sort is stable, so element i
\* ends behind every element with a greater score and behind the elements of equal
\* score that stood before it
sort_by_score_desc(violations) ==
    with(violations, LAMBDA s :
        LET place(i) == Cardinality({j \in 1..Len(s) : s[j].score > s[i].score})
                        + Cardinality({j \in 1..i : s[j].score = s[i].score})
        IN  list([p \in 1..Len(s) |-> s[CHOOSE i \in 1..Len(s) : place(i) = p]]))

\* the try block of scrape_violations: exc when a statement raised, returned when line 59
\* was reached
scrape_violations_try(api) ==
    IF api.fails # "none" THEN [exc |-> TRUE, returned |-> FALSE, value |-> << >>]
    ELSE IF "features" \in DOMAIN api.data /\ api.data["features"] # << >>
    THEN with(api.data["features"], LAMBDA features :
             IF \E i \in 1..Len(features) : ~ is_dict(features[i])
             THEN [exc |-> TRUE, returned |-> FALSE, value |-> << >>]
             ELSE [exc |-> FALSE, returned |-> TRUE,
                   value |-> sort_by_score_desc(
                                 list([i \in 1..Len(features) |-> violation_record(features[i])]))])
    ELSE [exc |-> FALSE, returned |-> FALSE, value |-> << >>]

\* scrape_violations without the except clause of line 60: the exception leaves it
scrape_violations_uncaught(api) ==
    with(scrape_violations_try(api), LAMBDA t :
        IF t.exc THEN [raised |-> TRUE, value |-> << >>]
        ELSE IF t.returned THEN [raised |-> FALSE, value |-> t.value]
        ELSE [raised |-> FALSE, value |-> << >>])

\* scrape_violations: the except clause prints and falls through to `return []`
scrape_violations(api) ==
    with(scrape_violations_try(api), LAMBDA t :
        IF t.exc THEN [raised |-> FALSE, value |-> << >>]
        ELSE IF t.returned THEN [raised |-> FALSE, value |-> t.value]
        ELSE [raised |-> FALSE, value |-> << >>])

(***************************************************************************)
(* Fallback generators.  The random module is a stream of draws: draw k of *)
(* iteration i of the stream a seed gives.                                 *)
(***************************************************************************)
RandomSeeds == {"low", "high", "mixed"}

\* random.randint(lo, hi)
randint(seed, i, k, lo, hi) ==
    CASE seed = "low" -> lo
      [] seed = "high" -> hi
      [] OTHER -> lo + ((i + k) % (hi - lo + 1))

\* random.choice(xs)
choice(seed, i, k, xs) == xs[randint(seed, i, k, 1, Len(xs))]

LisFallbackCount == 30
TaxFallbackCount == 50

lis_streets == <<<<"M","a","i","n"," ","S","t">>, <<"B","r","o","a","d","w","a","y">>, <<"M","a","r","k","e","t"," ","S","t">>, <<"J","e","f","f","e","r","s","o","n"," ","S","t">>, <<"L","i","b","e","r","t","y"," ","S","t">>, <<"O","a","k"," ","A","v","e">>, <<"M","a","p","l","e"," ","D","r">>>>
lis_zips == <<<<"4","0","2","0","2">>, <<"4","0","2","0","3">>, <<"4","0","2","1","1">>, <<"4","0","2","1","2">>, <<"4","0","2","1","4">>, <<"4","0","2","1","5">>, <<"4","0","2","1","8">>>>
tax_streets == <<<<"D","i","x","i","e"," ","H","w","y">>, <<"P","r","e","s","t","o","n"," ","S","t">>, <<"B","a","r","d","s","t","o","w","n"," ","R","d">>, <<"S","h","e","l","b","y","v","i","l","l","e"," ","R","d">>, <<"T","a","y","l","o","r","s","v","i","l","l","e"," ","R","d">>>>
tax_zips == <<<<"4","0","2","1","1">>, <<"4","0","2","1","2">>, <<"4","0","2","1","3">>, <<"4","0","2","1","4">>, <<"4","0","2","1","5">>, <<"4","0","2","1","6">>, <<"4","0","2","1","7">>, <<"4","0","2","1","8">>>>

\* generate_realistic_lis_pendens, called when datetime.now() is `now`
generate_realistic_lis_pendens(seed, now) ==
    list([n \in 1..LisFallbackCount |->
        LET i == n - 1
            street_num == randint(seed, i, 1, 100, 9999)
            street == choice(seed, i, 2, lis_streets)
            zip_code == choice(seed, i, 3, lis_zips)
            amount == randint(seed, i, 4, 45000, 350000)
            days_ago == randint(seed, i, 5, 1, 180)
        IN  [address |-> int_str(street_num) \o <<" ">> \o street \o str_city_zip \o zip_code,
             grantor |-> str_Owner \o int_str(i + 1),
             grantee |-> str_Bank \o int_str(randint(seed, i, 6, 1, 5)),
             amount |-> <<"$">> \o comma_str(amount),
             date |-> date_str(plus_days(now, 0 - days_ago).day),
             zip |-> zip_code,
             score |-> 8,
             type |-> str_LisPendens]])

\* generate_realistic_tax_delinquent with the score 5 + years, without the cap of line 294
generate_realistic_tax_delinquent_uncapped(seed) ==
    list([n \in 1..TaxFallbackCount |->
        LET i == n - 1
            street_num == randint(seed, i, 1, 100, 9999)
            street == choice(seed, i, 2, tax_streets)
            zip_code == choice(seed, i, 3, tax_zips)
            years == randint(seed, i, 4, 1, 7)
            amount == randint(seed, i, 5, 2500, 35000)
        IN  [address |-> int_str(street_num) \o <<" ">> \o street \o str_city_zip \o zip_code,
             amount |-> <<"$">> \o comma_str(amount),
             years |-> int_str(years) \o str_year \o (IF years > 1 THEN <<"s">> ELSE << >>),
             zip |-> zip_code,
             score |-> 5 + years,
             source |-> str_TaxRecords]])

\* generate_realistic_tax_delinquent
generate_realistic_tax_delinquent(seed) ==
    list([n \in 1..TaxFallbackCount |->
        LET i == n - 1
            street_num == randint(seed, i, 1, 100, 9999)
            street == choice(seed, i, 2, tax_streets)
            zip_code == choice(seed, i, 3, tax_zips)
            years == randint(seed, i, 4, 1, 7)
            amount == randint(seed, i, 5, 2500, 35000)
        IN  [address |-> int_str(street_num) \o <<" ">> \o street \o str_city_zip \o zip_code,
             amount |-> <<"$">> \o comma_str(amount),
             years |-> int_str(years) \o str_year \o (IF years > 1 THEN <<"s">> ELSE << >>),
             zip |-> zip_code,
             score |-> min2(9, 5 + years),
             source |-> str_TaxRecords]])

(***************************************************************************)
(* Lis pendens fetcher                                                     *)
(***************************************************************************)
LisRowLimit == 100

\* the dict appended for one table row with at least four cells (lines 109-126)
lis_record(cols) ==
    with(strip(cols[1]), LAMBDA grantor :
    with(extract_address_from_legal(strip(cols[3])), LAMBDA found :
    with(IF found # << >> THEN found[1] ELSE grantor \o str_property, LAMBDA address :
        [address |-> address,
         grantor |-> grantor,
         grantee |-> strip(cols[2]),
         amount |-> str_SeeDocument,
         date |-> strip(cols[4]),
         zip |-> extract_zip(address),
         score |-> 8,
         type |-> str_LisPendens])))

\* the rows of the results table turned into records (lines 101-128): the header row is
\* skipped, at most 100 rows are read, rows with fewer than four cells are passed over
parse_lis_table(table) ==
    IF table = << >> THEN << >>
    ELSE with(table[1], LAMBDA trs :
         with(SelectSeq(prefix(IF trs = << >> THEN << >> ELSE Tail(trs), LisRowLimit),
                        LAMBDA r : Len(r) >= 4),
              LAMBDA kept : list([i \in 1..Len(kept) |-> lis_record(kept[i])])))

\* the try block of scrape_lis_pendens
scrape_lis_pendens_try(html) ==
    IF html.fails # "none" THEN [exc |-> TRUE, value |-> << >>]
    ELSE [exc |-> FALSE, value |-> parse_lis_table(html.table)]

\* scrape_lis_pendens: the except clause returns the fallback records
scrape_lis_pendens(html, seed, now) ==
    with(scrape_lis_pendens_try(html), LAMBDA t :
        IF t.exc THEN [raised |-> FALSE, value |-> generate_realistic_lis_pendens(seed, now)]
        ELSE [raised |-> FALSE, value |-> t.value])

(***************************************************************************)
(* Tax delinquent fetcher                                                  *)
(***************************************************************************)
TaxLimit == 100
TaxEnough == 20
TaxPageLimit == 10
TaxMinAddress == 10
TaxLinePrefix == 50
TaxPdfScore == 7
TaxSupplement == 50

\* the record appended for one line of text, in a 1-tuple, or << >> (lines 171-189)
tax_line_record(line) ==
    with(amount_search(line), LAMBDA amount_match :
        IF amount_match = << >> THEN << >>
        ELSE with(street_search(line, TaxSuffixes), LAMBDA address_match :
             with(IF address_match # << >> THEN address_match[1] ELSE prefix(line, TaxLinePrefix),
                  LAMBDA address :
                      IF Len(address) > TaxMinAddress
                      THEN <<[address |-> strip(address) \o sfx_louisville,
                              amount |-> amount_match[1],
                              years |-> str_SeeRecord,
                              zip |-> extract_zip(address),
                              score |-> TaxPdfScore,
                              source |-> str_RealEstatePDF]>>
                      ELSE << >>)))

RECURSIVE tax_lines_records(_, _)
\* the records the lines k.. of one page give, in order
tax_lines_records(lines, k) ==
    IF k > Len(lines) THEN << >>
    ELSE tax_line_record(lines[k]) \o tax_lines_records(lines, k + 1)

RECURSIVE tax_pages_records(_, _, _)
\* the records of pages k..last, in order
tax_pages_records(pages, k, last) ==
    IF k > last THEN << >>
    ELSE tax_lines_records(pages[k].lines, 1) \o tax_pages_records(pages, k + 1, last)

\* the two loops of lines 162-195: pages are read in order, at most 10 of them, and
\* reading stops at the first page whose text extraction raises or once 100 records
\* are held, so the list is the first 100 records of the pages before that page
tax_parse_pages(pages) ==
    with(min2(TaxPageLimit, Len(pages)), LAMBDA n :
    with({k \in 1..n : pages[k].raises}, LAMBDA bad :
        prefix(tax_pages_records(pages, 1, IF bad = {} THEN n ELSE least(bad) - 1), TaxLimit)))

\* the records held when the inner try (lines 151-200) is left, whether it completed
\* or its except clause ran
tax_parse_pdf(doc) ==
    IF doc.get_fails \/ doc.status_code # 200 \/ doc.reader_fails THEN << >>
    ELSE tax_parse_pages(doc.pages)

\* an outer try block that returns the parsed records without the supplement
scrape_tax_delinquent_try_bare(doc, seed) ==
    IF doc.client_fails THEN [exc |-> TRUE, value |-> << >>]
    ELSE with(tax_parse_pdf(doc), LAMBDA parsed :
             [exc |-> FALSE, value |-> prefix(parsed, TaxLimit)])

\* the outer try block of scrape_tax_delinquent
scrape_tax_delinquent_try(doc, seed) ==
    IF doc.client_fails THEN [exc |-> TRUE, value |-> << >>]
    ELSE with(tax_parse_pdf(doc), LAMBDA parsed :
             [exc |-> FALSE,
              value |-> prefix(IF Len(parsed) < TaxEnough
                               THEN parsed \o prefix(generate_realistic_tax_delinquent(seed), TaxSupplement)
                               ELSE parsed,
                               TaxLimit)])

\* scrape_tax_delinquent: the outer except clause returns the fallback records
scrape_tax_delinquent(doc, seed) ==
    with(scrape_tax_delinquent_try(doc, seed), LAMBDA t :
        IF t.exc THEN [raised |-> FALSE, value |-> generate_realistic_tax_delinquent(seed)]
        ELSE [raised |-> FALSE, value |-> t.value])

(***************************************************************************)
(* Request handlers: each is a function of the cache, the clock and the    *)
(* query parameters; status "error" stands for an uncaught exception.      *)
(***************************************************************************)
Sources == {"violations", "lis_pendens", "tax_delinquent"}

HomeLimit == 100
MobileLimit == 20
HighScore == 8

\* the list data_cache[source]
cached(cache, source) ==
    CASE source = "violations" -> cache.violations
      [] source = "lis_pendens" -> cache.lis_pendens
      [] source = "tax_delinquent" -> cache.tax_delinquent

\* lines 424-435 of home and 552-560 of mobile: anything else than the two names selects violations
selected_source(data_type) ==
    IF data_type = "lis_pendens" THEN "lis_pendens"
    ELSE IF data_type = "tax_delinquent" THEN "tax_delinquent"
    ELSE "violations"

\* the keys the card of one item subscripts in home, by branch (lines 452-466, 472)
home_keys(data_type) ==
    IF data_type = "violations" THEN {"address", "violation_type", "case_id", "status", "date"}
    ELSE IF data_type = "lis_pendens" THEN {"address", "date"}
    ELSE {"address", "amount"}

count_high(data) == Cardinality({i \in 1..Len(data) : data[i].score >= HighScore})

\* GET /: min_score and max_score are not parameters of the function, so the values
\* a request carries for them are dropped
home(cache, now, req) ==
    with(cached(cache, selected_source(req.data_type)), LAMBDA data :
    with(IF req.search # EmptyStr
         THEN with(lower(req.search), LAMBDA needle :
                  SelectSeq(data, LAMBDA d : contains(lower(d.address), needle)))
         ELSE data, LAMBDA filtered :
    with(prefix(filtered, HomeLimit), LAMBDA shown :
        IF \/ \E i \in 1..Len(shown) : ~ (home_keys(req.data_type) \subseteq DOMAIN shown[i])
           \/ cache.next_scrape = << >>
        THEN [handler |-> "home", request |-> req, status |-> "error"]
        ELSE [handler |-> "home", request |-> req, status |-> "ok",
              rendered |-> shown, total |-> Len(data), high |-> count_high(data),
              showing |-> Len(filtered),
              last_update |-> strftime_short(get(cache.last_updated, req.data_type, now)),
              next_scrape |-> strftime_short(cache.next_scrape[1])])))

\* GET /mobile
mobile(cache, req) ==
    with(cached(cache, selected_source(req.data_type)), LAMBDA data :
    with(prefix(SelectSeq(data, LAMBDA d : d.score >= HighScore), MobileLimit), LAMBDA critical :
        [handler |-> "mobile", request |-> req, status |-> "ok",
         rendered |-> critical, critical |-> Len(critical), total |-> Len(data)]))

ViolationsHeader == <<"#", "Address", "Violation", "Case ID", "Status", "Date", "Score", "ZIP">>
LisPendensHeader == <<"#", "Address", "Grantor", "Grantee", "Amount", "Filed Date", "ZIP", "Score">>
TaxHeader == <<"#", "Address", "Amount Owed", "Years Delinquent", "ZIP", "Score">>

\* the header row export writes, by branch (lines 624-633)
export_header(type) ==
    IF type = "violations" THEN ViolationsHeader
    ELSE IF type = "lis_pendens" THEN LisPendensHeader
    ELSE TaxHeader

\* the keys a data row subscripts, by branch
export_keys(type) ==
    IF type = "violations" THEN {"address", "violation_type", "case_id", "status", "date", "score", "zip"}
    ELSE IF type = "lis_pendens" THEN {"address", "date", "zip", "score"}
    ELSE {"address", "amount", "zip", "score"}

\* the data row export writes for item v at position i
export_row(type, i, v) ==
    IF type = "violations"
    THEN <<i, v.address, v.violation_type, v.case_id, v.status, v.date, v.score, v.zip>>
    ELSE IF type = "lis_pendens"
    THEN <<i, v.address, get(v, "grantor", EmptyStr), get(v, "grantee", EmptyStr),
           get(v, "amount", EmptyStr), v.date, v.zip, v.score>>
    ELSE <<i, v.address, v.amount, get(v, "years", EmptyStr), v.zip, v.score>>

\* an export that writes only the records of score 8 and above
export_high_scores(cache, now, type) ==
    with(IF type \in Sources THEN SelectSeq(cached(cache, type), LAMBDA d : d.score >= HighScore) ELSE << >>,
         LAMBDA data :
        IF \/ type = "next_scrape"
           \/ type = "last_updated" /\ DOMAIN cache.last_updated # {}
        THEN [handler |-> "export", request |-> [type |-> type], status |-> "error"]
        ELSE [handler |-> "export", request |-> [type |-> type], status |-> "ok",
              rows |-> <<export_header(type)>> \o [i \in 1..Len(data) |-> export_row(type, i, data[i])],
              filename |-> <<"hayseed", type, now.day, now.hour, now.minute>>])

\* GET /export: data_cache.get(type, []) looks the parameter up among all five keys of
\* the cache, so it can be the last_updated dict (iterated by its keys, which are
\* strings) or next_scrape (a datetime or None, neither iterable)
export(cache, now, type) ==
    with(IF type \in Sources THEN cached(cache, type) ELSE << >>, LAMBDA data :
        IF \/ type = "next_scrape"
           \/ type = "last_updated" /\ DOMAIN cache.last_updated # {}
           \/ \E i \in 1..Len(data) : ~ (export_keys(type) \subseteq DOMAIN data[i])
        THEN [handler |-> "export", request |-> [type |-> type], status |-> "error"]
        ELSE [handler |-> "export", request |-> [type |-> type], status |-> "ok",
              rows |-> <<export_header(type)>> \o [i \in 1..Len(data) |-> export_row(type, i, data[i])],
              filename |-> <<"hayseed", type, now.day, now.hour, now.minute>>])

\* GET /health
health(cache, now) ==
    [handler |-> "health", request |-> [path |-> "/health"], status |-> "ok",
     timestamp |-> isoformat(now),
     data_counts |-> [s \in Sources |-> Len(cached(cache, s))],
     last_updated |-> [s \in DOMAIN cache.last_updated |-> isoformat(cache.last_updated[s])],
     next_scrape |-> IF cache.next_scrape # << >> THEN <<isoformat(cache.next_scrape[1])>> ELSE << >>]

\* GET /manual-scrape: only lis_pendens is scraped; any exception becomes an error body
manual_scrape(req, html) ==
    IF req.data_type = "lis_pendens" /\ html.fails = "none"
    THEN with(parse_lis_table(html.table), LAMBDA lis_pendens :
             [handler |-> "manual_scrape", request |-> req, status |-> "ok", body |-> "success",
              count |-> Len(lis_pendens), data |-> lis_pendens])
    ELSE [handler |-> "manual_scrape", request |-> req, status |-> "ok", body |-> "error"]

(***************************************************************************)
(* Inputs: what the three external sources may answer, and the requests    *)
(***************************************************************************)
MaxApiFeatures == 3
LastCronSlot == 2

feature(desc, status, addr, case, day) ==
    [attributes |-> [SITE_ADDRESS |-> addr, VIOLATION_CODE_DESCRIPTION |-> desc, CASE_NUMBER |-> case,
                     CASE_STATUS |-> status, INSPECTION_DATE |-> [json |-> "number", day |-> day]]]

NotADict == [not_a_dict |-> TRUE]

feat_structural == feature(txt_StructuralUnsafe, st_Open, addr_Main, <<"A">>, 3)
feat_signage == feature(txt_Signage, st_Closed, addr_Oak, <<"B">>, 0)
feat_plumbing == feature(txt_Plumbing, st_Open, addr_Main, <<"C">>, 5)
feat_hazard == feature(txt_HAZARD, st_pending, addr_Oak, <<"D">>, 7)
feat_mold == feature(txt_Mold, st_ACTIVE, addr_NA, <<"E">>, 9)

\* sequences over S of length at most n
RECURSIVE SeqUpTo(_, _)
SeqUpTo(S, n) ==
    IF n = 0 THEN {<< >>}
    ELSE LET shorter == SeqUpTo(S, n - 1)
         IN  shorter \cup {Append(s, x) : s \in {q \in shorter : Len(q) = n - 1}, x \in S}

api_ok(features) == [fails |-> "none", data |-> [features |-> features]]
ApiFailures == {[fails |-> "request", data |-> EmptyDict], [fails |-> "json", data |-> EmptyDict],
                [fails |-> "none", data |-> EmptyDict]}

\* the step of scrape_violations that fails on an answer, or "none"
api_failure(api) ==
    IF api.fails # "none" THEN api.fails
    ELSE IF "features" \notin DOMAIN api.data \/ api.data["features"] = << >> THEN "no_features"
    ELSE IF \E i \in 1..Len(api.data["features"]) : ~ is_dict(api.data["features"][i]) THEN "bad_feature"
    ELSE "none"

\* answers of the feature-query API, for the running application and for the fetcher alone
ApiInputs ==
    ApiFailures \cup {api_ok(<< >>), api_ok(<<feat_signage>>),
                       api_ok(<<feat_signage, feat_structural, feat_plumbing>>),
                       api_ok(<<feat_plumbing, feat_hazard, feat_signage, EmptyDict>>)}
ApiInputsWide ==
    ApiFailures \cup {api_ok(f) : f \in SeqUpTo({feat_structural, feat_signage, feat_plumbing, feat_hazard,
                                                  feat_mold, EmptyDict, NotADict}, MaxApiFeatures)}

\* the attribute dicts the Scorer is called on
ScoreInputs ==
    {[VIOLATION_CODE_DESCRIPTION |-> d, CASE_STATUS |-> s] : d \in Texts, s \in Statuses}
    \cup {[CASE_STATUS |-> s] : s \in Statuses}

\* n copies of x
repeat(x, n) == list([i \in 1..n |-> x])

cell_header == <<"C","o","l">>
cell_grantor == <<" ","D","O","E"," ","J","O","H","N"," ">>
cell_grantee == <<"B","A","N","K"," ","O","N","E">>
cell_legal == <<"L","O","T"," ","1","2"," ","B","L","K"," ","3"," ","1","4","2","0"," ","S"," ","M","a","i","n"," ","S","t","r","e","e","t"," ","4","0","2","0","3">>
cell_legal_none == <<"L","O","T"," ","7"," ","P","L","A","T"," ","B","O","O","K"," ","4","0","2","1","1">>
cell_date == <<"0","1","/","1","5","/","2","0","2","5">>

lis_row_street == <<cell_grantor, cell_grantee, cell_legal, cell_date>>
lis_row_plain == <<cell_grantor, cell_grantee, cell_legal_none, cell_date, cell_date>>
lis_row_short == <<cell_grantor, cell_grantee>>
lis_header_row == <<cell_header, cell_header, cell_header, cell_header>>

lis_page(trs) == [fails |-> "none", table |-> <<trs>>]

\* answers of the deeds search: a failed GET or POST, a page without a table, a table
\* answers of the deeds search: a failed GET or POST, a page without a table, a table
\* with its header row only, and a table with data rows
LisInputs ==
    {[fails |-> "get", table |-> << >>], [fails |-> "post", table |-> << >>],
     [fails |-> "none", table |-> << >>],
     lis_page(<<lis_header_row>>),
     lis_page(<<lis_header_row, lis_row_street, lis_row_short, lis_row_plain>>)}
ManualInputs == {[fails |-> "post", table |-> << >>], lis_page(<<lis_header_row, lis_row_street>>)}
LisInputsWide ==
    LisInputs \cup {lis_page(<<lis_header_row>> \o repeat(lis_row_street, n)) : n \in {99, 100, 101}}
\* the step of scrape_lis_pendens that fails on an answer, or "none"
lis_failure(html) ==
    IF html.fails # "none" THEN html.fails
    ELSE IF html.table = << >> THEN "no_table"
    ELSE "none"

line_parcel == <<"0","2","1","A","0","0","4","5","0","0","0","0"," ","S","M","I","T","H"," ","J","O","H","N"," ","4","5","1","2"," ","W"," ","B","R","O","A","D","W","A","Y"," ","B","L","V","D"," ","$","1",",","2","3","4",".","5","6">>
line_noaddr == <<"T","O","T","A","L"," ","D","U","E"," ","F","O","R"," ","D","I","S","T","R","I","C","T"," ","4","0","2","1","1"," ","$","9",",","8","7","6">>
line_short == <<"F","E","E"," ","$","2","5",".","0","0">>
line_text == <<"R","E","A","L"," ","E","S","T","A","T","E"," ","D","E","L","I","N","Q","U","E","N","T"," ","T","A","X"," ","B","I","L","L","S">>

pdf(client_fails, get_fails, status_code, reader_fails, pages) ==
    [client_fails |-> client_fails, get_fails |-> get_fails, status_code |-> status_code,
     reader_fails |-> reader_fails, pages |-> pages]
pdf_ok(pages) == pdf(FALSE, FALSE, 200, FALSE, pages)
page(lines) == [raises |-> FALSE, lines |-> lines]
BadPage == [raises |-> TRUE, lines |-> << >>]

\* answers of the tax bulletin download
PdfInputs ==
    {pdf(TRUE, FALSE, 200, FALSE, << >>), pdf(FALSE, TRUE, 200, FALSE, << >>),
     pdf(FALSE, FALSE, 404, FALSE, << >>), pdf(FALSE, FALSE, 200, TRUE, << >>),
     pdf_ok(<<page(<<line_text>>)>>),
     pdf_ok(<<page(<<line_text, line_parcel, line_short, line_noaddr>>)>>),
     pdf_ok(<<page(repeat(line_parcel, 12)), page(<<line_text>> \o repeat(line_noaddr, 9))>>)}
PdfInputsWide ==
    PdfInputs \cup
    {pdf_ok(<<page(repeat(line_parcel, n))>>) : n \in {19, 20, 99, 100, 101}} \cup
    {pdf_ok(<<page(repeat(line_parcel, 15)), BadPage, page(repeat(line_parcel, 15))>>),
     pdf_ok(repeat(page(repeat(line_parcel, 2)), 12)),
     pdf_ok(<<page(repeat(line_parcel, 60)), page(repeat(line_noaddr, 60))>>)}

\* values of the data_type and type parameters: the three sources, the other two keys of
\* the step of scrape_tax_delinquent that fails on an answer, or "none"
tax_failure(doc) ==
    IF doc.client_fails THEN "client"
    ELSE IF doc.get_fails THEN "get"
    ELSE IF doc.status_code # 200 THEN "status"
    ELSE IF doc.reader_fails THEN "reader"
    ELSE IF \E k \in 1..Len(doc.pages) : doc.pages[k].raises THEN "page"
    ELSE IF \A k \in 1..Len(doc.pages) : \A j \in 1..Len(doc.pages[k].lines) :
                amount_search(doc.pages[k].lines[j]) = << >> THEN "no_match"
    ELSE "none"

\* the cache, and a string that is no key
DataTypes == {"violations", "lis_pendens", "tax_delinquent", "last_updated", "next_scrape", "bogus"}
PageDataTypes == {"violations", "lis_pendens", "tax_delinquent", "bogus"}
search_main == <<"m","a","i","n">>
NoScore == << >>

\* a GET / request: the source, the search text, and the score bounds a client may send
home_request(data_type, search, min_score, max_score) ==
    [data_type |-> data_type, search |-> search, min_score |-> min_score, max_score |-> max_score]

HomeRequests ==
    {home_request("violations", EmptyStr, NoScore, NoScore),
     home_request("violations", search_main, NoScore, NoScore),
     home_request("violations", EmptyStr, <<8>>, NoScore),
     home_request("violations", search_main, NoScore, <<6>>),
     home_request("lis_pendens", search_main, <<8>>, NoScore),
     home_request("lis_pendens", EmptyStr, NoScore, NoScore),
     home_request("tax_delinquent", EmptyStr, <<6>>, <<8>>),
     home_request("tax_delinquent", search_main, NoScore, NoScore),
     home_request("bogus", EmptyStr, NoScore, NoScore)}

\* the seed of the random module in the running application
RunSeeds == {"mixed"}

\* what each fetcher returns for each answer of its source, tabulated
ViolationsFetch == [api \in ApiInputs |-> scrape_violations(api)]
LisPendensFetch ==
    [html \in LisInputs, seed \in RunSeeds, day \in 0..LastCronSlot |->
        scrape_lis_pendens(html, seed, datetime(day, 0, 0, 0, 0))]
TaxDelinquentFetch == [doc \in PdfInputs, seed \in RunSeeds |-> scrape_tax_delinquent(doc, seed)]

StartTimes == {datetime(0, 15, 0, 0, 1), datetime(0, 23, 0, 0, 0)}


(***************************************************************************)
(* The process                                                             *)
(***************************************************************************)
NoTime == datetime(0, 0, 0, 0, 0)
NoCall == [fn |-> "none"]
NoResponse == [handler |-> "none"]

\* lines 14-20
EmptyCache ==
    [violations |-> << >>, lis_pendens |-> << >>, tax_delinquent |-> << >>,
     last_updated |-> [s \in {} |-> NoTime], next_scrape |-> << >>]

Init ==
    /\ data_cache = EmptyCache
    /\ clock \in StartTimes
    /\ pc = "startup"
    /\ run_pc = "idle"
    /\ run_now = NoTime
    /\ arg = NoCall
    /\ ret = NoResponse

\* an exception leaving run_all_scrapers: during the startup event the server never
\* becomes ready, in a cron job the scheduler logs it and the run is over
run_aborts ==
    /\ run_pc' = "idle"
    /\ run_now' = NoTime
    /\ pc' = IF pc = "startup_run" THEN "failed" ELSE pc
    /\ UNCHANGED data_cache

\* startup(): `await run_all_scrapers()` is entered, line 304 reads the clock
startup ==
    /\ pc = "startup"
    /\ pc' = "startup_run"
    /\ run_pc' = "violations"
    /\ run_now' = clock
    /\ ret' = NoResponse
    /\ UNCHANGED <<data_cache, clock, arg>>

\* a run that keeps the violations of the previous run when its own fetch returns none
run_violations_keeping ==
    /\ run_pc = "violations"
    /\ \E api \in ApiInputs :
          /\ arg' = [fn |-> "scrape_violations", failure |-> api_failure(api)]
          /\ \E r \in {ViolationsFetch[api]} :
                IF r.raised THEN run_aborts
                ELSE /\ data_cache' = IF r.value = << >> THEN data_cache
                                      ELSE [data_cache EXCEPT !.violations = r.value]
                     /\ run_pc' = "lis_pendens"
                     /\ UNCHANGED <<pc, run_now>>
    /\ ret' = NoResponse
    /\ UNCHANGED clock

\* line 310; arg keeps which fetcher was called and what became of its request
run_violations ==
    /\ run_pc = "violations"
    /\ \E api \in ApiInputs :
          /\ arg' = [fn |-> "scrape_violations", failure |-> api_failure(api)]
          /\ \E r \in {ViolationsFetch[api]} :
                IF r.raised THEN run_aborts
                ELSE /\ data_cache' = [data_cache EXCEPT !.violations = r.value]
                     /\ run_pc' = "lis_pendens"
                     /\ UNCHANGED <<pc, run_now>>
    /\ ret' = NoResponse
    /\ UNCHANGED clock

\* line 311
run_lis_pendens ==
    /\ run_pc = "lis_pendens"
    /\ \E html \in LisInputs, seed \in RunSeeds :
          /\ arg' = [fn |-> "scrape_lis_pendens", failure |-> lis_failure(html)]
          /\ \E r \in {LisPendensFetch[html, seed, clock.day]} :
                IF r.raised THEN run_aborts
                ELSE /\ data_cache' = [data_cache EXCEPT !.lis_pendens = r.value]
                     /\ run_pc' = "tax_delinquent"
                     /\ UNCHANGED <<pc, run_now>>
    /\ ret' = NoResponse
    /\ UNCHANGED clock

\* line 312
run_tax_delinquent ==
    /\ run_pc = "tax_delinquent"
    /\ \E doc \in PdfInputs, seed \in RunSeeds :
          /\ arg' = [fn |-> "scrape_tax_delinquent", failure |-> tax_failure(doc)]
          /\ \E r \in {TaxDelinquentFetch[doc, seed]} :
                IF r.raised THEN run_aborts
                ELSE /\ data_cache' = [data_cache EXCEPT !.tax_delinquent = r.value]
                     /\ run_pc' = "stamp"
                     /\ UNCHANGED <<pc, run_now>>
    /\ ret' = NoResponse
    /\ UNCHANGED clock

\* a run that stamps last_updated with the time at which it ends
run_stamp_at_end ==
    /\ run_pc = "stamp"
    /\ data_cache' = [data_cache EXCEPT !.last_updated = [s \in Sources |-> clock]]
    /\ run_pc' = "idle"
    /\ run_now' = NoTime
    /\ pc' = IF pc = "startup_run" THEN "schedule" ELSE pc
    /\ arg' = NoCall
    /\ ret' = NoResponse
    /\ UNCHANGED clock

\* a run that also recomputes next_scrape when it ends
run_stamp_rescheduling ==
    /\ run_pc = "stamp"
    /\ data_cache' = [data_cache EXCEPT !.last_updated = [s \in Sources |-> run_now],
                                        !.next_scrape = IF pc = "ready" THEN <<next_scrape_at(clock)>> ELSE @]
    /\ run_pc' = "idle"
    /\ run_now' = NoTime
    /\ pc' = IF pc = "startup_run" THEN "schedule" ELSE pc
    /\ arg' = NoCall
    /\ ret' = NoResponse
    /\ UNCHANGED clock

\* lines 315-319, and the return to startup() when it is the caller
run_stamp ==
    /\ run_pc = "stamp"
    /\ data_cache' = [data_cache EXCEPT !.last_updated = [s \in Sources |-> run_now]]
    /\ run_pc' = "idle"
    /\ run_now' = NoTime
    /\ pc' = IF pc = "startup_run" THEN "schedule" ELSE pc
    /\ arg' = NoCall
    /\ ret' = NoResponse
    /\ UNCHANGED clock

\* schedule_scrapers(), the last statement of startup(): the server is ready after it
schedule_scrapers ==
    /\ pc = "schedule"
    /\ data_cache' = [data_cache EXCEPT !.next_scrape = <<next_scrape_at(clock)>>]
    /\ pc' = "ready"
    /\ ret' = NoResponse
    /\ UNCHANGED <<clock, run_pc, run_now, arg>>

\* the first time after t at which one of the three cron jobs is due
cron_fire_time(t) ==
    min_time({u \in {datetime(t.day + d, CronHours[i], 0, 0, 0) : d \in {0, 1}, i \in 1..Len(CronHours)} :
                 time_gt(u, t)})

\* the number of cron times before t since 00:00 of day 0
cron_slot(t) == t.day * Len(CronHours) + Cardinality({i \in 1..Len(CronHours) : CronHours[i] < t.hour})

\* a cron job of lines 332-334 fires at its time, in the scheduler's thread, and
\* enters run_all_scrapers
cron_fire ==
    /\ pc = "ready"
    /\ run_pc = "idle"
    /\ cron_slot(cron_fire_time(clock)) <= LastCronSlot
    /\ clock' = cron_fire_time(clock)
    /\ run_pc' = "violations"
    /\ run_now' = clock'
    /\ ret' = NoResponse
    /\ UNCHANGED <<data_cache, pc, arg>>

\* time passes, short of the next cron time
tick ==
    /\ \E t \in {[clock EXCEPT !.minute = 30, !.second = 0]} :
          /\ time_gt(t, clock)
          /\ time_gt(cron_fire_time(clock), t)
          /\ clock' = t
    /\ ret' = NoResponse
    /\ UNCHANGED <<data_cache, pc, run_pc, run_now, arg>>

get_home ==
    /\ pc = "ready"
    /\ ret = NoResponse
    /\ \E req \in HomeRequests : ret' = home(data_cache, clock, req)
    /\ UNCHANGED <<data_cache, clock, pc, run_pc, run_now, arg>>

get_mobile ==
    /\ pc = "ready"
    /\ ret = NoResponse
    /\ \E d \in PageDataTypes : ret' = mobile(data_cache, [data_type |-> d])
    /\ UNCHANGED <<data_cache, clock, pc, run_pc, run_now, arg>>

get_export ==
    /\ pc = "ready"
    /\ ret = NoResponse
    /\ \E type \in DataTypes : ret' = export(data_cache, clock, type)
    /\ UNCHANGED <<data_cache, clock, pc, run_pc, run_now, arg>>

\* a health handler that is served only while no refresh run is in progress
get_health_when_idle ==
    /\ pc = "ready"
    /\ run_pc = "idle"
    /\ ret = NoResponse
    /\ ret' = health(data_cache, clock)
    /\ UNCHANGED <<data_cache, clock, pc, run_pc, run_now, arg>>

get_health ==
    /\ pc = "ready"
    /\ ret = NoResponse
    /\ ret' = health(data_cache, clock)
    /\ UNCHANGED <<data_cache, clock, pc, run_pc, run_now, arg>>

\* a manual scrape that also stores its records as the cached lis_pendens collection
get_manual_scrape_caching ==
    /\ pc = "ready"
    /\ ret = NoResponse
    /\ \E d \in {"lis_pendens", "violations"}, html \in ManualInputs :
          /\ ret' = manual_scrape([data_type |-> d, from_date |-> cell_date, to_date |-> cell_date], html)
          /\ data_cache' = IF ret'.body = "success"
                           THEN [data_cache EXCEPT !.lis_pendens = ret'.data]
                           ELSE data_cache
    /\ UNCHANGED <<clock, pc, run_pc, run_now, arg>>

get_manual_scrape ==
    /\ pc = "ready"
    /\ ret = NoResponse
    /\ \E d \in {"lis_pendens", "violations"}, html \in ManualInputs :
          ret' = manual_scrape([data_type |-> d, from_date |-> cell_date, to_date |-> cell_date], html)
    /\ UNCHANGED <<data_cache, clock, pc, run_pc, run_now, arg>>

\* the response has gone out to the client
send_response ==
    /\ pc = "ready"
    /\ ret # NoResponse
    /\ ret' = NoResponse
    /\ UNCHANGED <<data_cache, clock, pc, run_pc, run_now, arg>>

Next ==
    \/ startup
    \/ run_violations
    \/ run_lis_pendens
    \/ run_tax_delinquent
    \/ run_stamp
    \/ schedule_scrapers
    \/ cron_fire
    \/ tick
    \/ get_home
    \/ get_mobile
    \/ get_export
    \/ get_health
    \/ get_manual_scrape
    \/ send_response

Spec == Init /\ [][Next]_vars

(***************************************************************************)
(* The Scorer called on its own                                            *)
(***************************************************************************)
ScoreCalls == {[fn |-> "calc_score", attrs |-> a] : a \in ScoreInputs}

InitScore ==
    /\ data_cache = EmptyCache
    /\ clock = NoTime
    /\ pc = "call"
    /\ run_pc = "idle"
    /\ run_now = NoTime
    /\ arg \in ScoreCalls
    /\ ret = NoResponse

call_calc_score ==
    /\ pc = "call"
    /\ arg.fn = "calc_score"
    /\ ret' = [handler |-> "calc_score", value |-> calc_score(arg.attrs)]
    /\ pc' = "returned"
    /\ UNCHANGED <<data_cache, clock, run_pc, run_now, arg>>

\* the caller drops the value
drop_result ==
    /\ pc = "returned"
    /\ ret # NoResponse
    /\ ret' = NoResponse
    /\ UNCHANGED <<data_cache, clock, pc, run_pc, run_now, arg>>

NextScore ==
    \/ call_calc_score
    \/ drop_result

SpecScore == InitScore /\ [][NextScore]_vars

(***************************************************************************)
(* The violations fetcher called on its own                                *)
(***************************************************************************)
ViolationsCalls == {[fn |-> "scrape_violations", api |-> a] : a \in ApiInputsWide}

InitViolations ==
    /\ data_cache = EmptyCache
    /\ clock = NoTime
    /\ pc = "call"
    /\ run_pc = "idle"
    /\ run_now = NoTime
    /\ arg \in ViolationsCalls
    /\ ret = NoResponse

call_scrape_violations ==
    /\ pc = "call"
    /\ arg.fn = "scrape_violations"
    /\ \E r \in {scrape_violations(arg.api)} :
          ret' = [handler |-> "scrape_violations", raised |-> r.raised, value |-> r.value]
    /\ pc' = "returned"
    /\ UNCHANGED <<data_cache, clock, run_pc, run_now, arg>>

NextViolations ==
    \/ call_scrape_violations
    \/ drop_result

SpecViolations == InitViolations /\ [][NextViolations]_vars

(***************************************************************************)
(* schedule_scrapers at any time of day, after the first run               *)
(***************************************************************************)
ScheduleTimes ==
    {datetime(0, h, m, s, us) : h \in 0..23, m \in {0, 1, 59}, s \in {0, 59}, us \in {0, 1}}

\* the cache when run_all_scrapers, entered at `now`, has returned (lines 310-319)
cache_after_run(api, html, doc, seed, now) ==
    [violations |-> scrape_violations(api).value,
     lis_pendens |-> scrape_lis_pendens(html, seed, now).value,
     tax_delinquent |-> scrape_tax_delinquent(doc, seed).value,
     last_updated |-> [s \in Sources |-> now],
     next_scrape |-> << >>]

InitSchedule ==
    /\ clock \in ScheduleTimes
    /\ data_cache \in {cache_after_run(api_ok(<<feat_signage>>), lis_page(<<lis_header_row>>),
                                       pdf(FALSE, FALSE, 404, FALSE, << >>), "mixed", clock)}
    /\ pc = "schedule"
    /\ run_pc = "idle"
    /\ run_now = NoTime
    /\ arg = NoCall
    /\ ret = NoResponse

NextSchedule ==
    \/ schedule_scrapers
    \/ get_health
    \/ send_response

SpecSchedule == InitSchedule /\ [][NextSchedule]_vars

(***************************************************************************)
(* Properties                                                              *)
(***************************************************************************)
\* the case status names open, active or pending, in any case
status_matches(attrs) ==
    any_in(lower(get(attrs, "CASE_STATUS", EmptyStr)), <<kw_open, kw_active, kw_pending>>)

\* the attributes without the case status
text_only(attrs) == [k \in DOMAIN attrs \ {"CASE_STATUS"} |-> attrs[k]]

\* C1: the score of a violation record is its keyword score plus 1, capped at 10, when
\* the case status matches open, active or pending, and the keyword score otherwise;
\* "Structural Damage - Unsafe Building" with status "Open" scores 10.
C1_StatusBonus ==
    ret.handler = "calc_score" =>
        /\ ret.value = min2(10, calc_score(text_only(arg.attrs))
                                + (IF status_matches(arg.attrs) THEN 1 ELSE 0))
        /\ (arg.attrs = [VIOLATION_CODE_DESCRIPTION |-> txt_StructuralUnsafe, CASE_STATUS |-> st_Open]
               => ret.value = 10)

\* the keyword score of a lower-cased violation text by the documented ordered groups
documented_keyword_score(v) ==
    IF any_in(v, <<kw_structural, kw_unsafe, kw_condemned, kw_collapse, kw_foundation>>) THEN 9
    ELSE IF any_in(v, <<kw_fire, kw_electrical, kw_hazard, kw_health, kw_mold>>) THEN 8
    ELSE IF any_in(v, <<kw_overgrown, kw_trash, kw_debris, kw_vacant, kw_abandoned>>) THEN 6
    ELSE IF any_in(v, <<kw_plumbing, kw_roof, kw_exterior>>) THEN 5
    ELSE 5

\* C2: for a record whose status adds nothing, the score is the one of the first
\* matching group of {structural, unsafe, condemned, collapse, foundation} -> 9,
\* {fire, electrical, hazard, health, mold} -> 8, {overgrown, trash, debris, vacant,
\* abandoned} -> 6, {plumbing, roof, exterior} -> 5, and 5 with no match, the text
\* being compared case-insensitively.
C2_KeywordGroups ==
    (ret.handler = "calc_score" /\ ~ status_matches(arg.attrs)) =>
        ret.value = documented_keyword_score(lower(get(arg.attrs, "VIOLATION_CODE_DESCRIPTION", EmptyStr)))

\* C3: in every reachable state every record cached for any of the three sources has
\* an integer score between 1 and 10.
C3_ScoreRange ==
    \A s \in Sources : \A i \in 1..Len(cached(data_cache, s)) :
        cached(data_cache, s)[i].score \in 1..10

\* C3 witness: all three collections are filled, the lis pendens one by the fallback
\* generator, the tax one by parsed records topped up with generated ones
C3_Witness ==
    /\ data_cache.violations # << >>
    /\ Len(data_cache.lis_pendens) = LisFallbackCount
    /\ \E i \in 1..Len(data_cache.lis_pendens) : data_cache.lis_pendens[i].grantor = str_Owner \o <<"1">>
    /\ \E i \in 1..Len(data_cache.tax_delinquent) : data_cache.tax_delinquent[i].source = str_RealEstatePDF
    /\ \E i \in 1..Len(data_cache.tax_delinquent) :
          /\ data_cache.tax_delinquent[i].source = str_TaxRecords
          /\ data_cache.tax_delinquent[i].score = 9

\* the one-to-one maps of 1..n onto itself
Permutations_of(n) == {p \in [1..n -> 1..n] : \A i, j \in 1..n : p[i] = p[j] => i = j}

\* C4: the list the violations fetcher returns is non-increasing by score, and records
\* of equal score stand in the order in which their features stood in the API response.
C4_StableDescending ==
    ret.handler = "scrape_violations" =>
        /\ \A i \in 1..(Len(ret.value) - 1) : ret.value[i].score >= ret.value[i + 1].score
        /\ ret.value # << >> =>
              \E features \in {arg.api.data["features"]} :
                 /\ Len(features) = Len(ret.value)
                 /\ \E p \in Permutations_of(Len(features)) :
                       /\ \A k \in 1..Len(features) : ret.value[k] = violation_record(features[p[k]])
                       /\ \A k, l \in 1..Len(features) :
                             (k < l /\ ret.value[k].score = ret.value[l].score) => p[k] < p[l]

\* C4 witness: a score-5, a score-9 and another score-5 feature come back as the
\* score-9 record followed by the two score-5 records in their order of arrival
C4_Witness ==
    /\ ret.handler = "scrape_violations"
    /\ arg.api = api_ok(<<feat_signage, feat_structural, feat_plumbing>>)
    /\ Len(ret.value) = 3
    /\ <<ret.value[1].case_id, ret.value[2].case_id, ret.value[3].case_id>> = <<<<"A">>, <<"B">>, <<"C">>>>
    /\ <<ret.value[1].score, ret.value[2].score, ret.value[3].score>> = <<9, 5, 5>>

\* the value the documentation gives next_scrape at time t: the earliest of 08:00, 14:00
\* and 22:00 of t's day that is after t, or 08:00 of the next day
documented_next_scrape(t) ==
    LET today == {datetime(t.day, CronHours[i], 0, 0, 0) : i \in 1..Len(CronHours)}
        later == {u \in today : time_gt(u, t)}
    IN  IF later # {} THEN min_time(later) ELSE datetime(t.day + 1, 8, 0, 0, 0)

\* C5: when schedule_scrapers has run at time t, next_scrape is the earliest of that
\* day's 08:00, 14:00 and 22:00 strictly after t, or 08:00 of the following day when
\* none of the three is after t.
C5_NextScrape ==
    pc = "ready" => data_cache.next_scrape = <<documented_next_scrape(clock)>>

\* the fixed column header of each source
source_header(source) ==
    CASE source = "violations" -> <<"#", "Address", "Violation", "Case ID", "Status", "Date", "Score", "ZIP">>
      [] source = "lis_pendens" -> <<"#", "Address", "Grantor", "Grantee", "Amount", "Filed Date", "ZIP", "Score">>
      [] source = "tax_delinquent" -> <<"#", "Address", "Amount Owed", "Years Delinquent", "ZIP", "Score">>

\* the position of a column in a header row
column(header, name) == CHOOSE k \in 1..Len(header) : header[k] = name

\* C6: GET /export for one of the three sources writes the header row of that source
\* and then one row per record of the source's cached collection, unfiltered and in
\* cache order; three cached violations give 4 lines.
C6_ExportRows ==
    (ret.handler = "export" /\ ret.request.type \in Sources) =>
        \E data \in {cached(data_cache, ret.request.type)} :
            /\ ret.status = "ok"
            /\ Len(ret.rows) = 1 + Len(data)
            /\ ret.rows[1] = source_header(ret.request.type)
            /\ \A i \in 1..Len(data) :
                  /\ ret.rows[i + 1][1] = i
                  /\ ret.rows[i + 1][2] = data[i].address
                  /\ ret.rows[i + 1][column(ret.rows[1], "Score")] = data[i].score
                  /\ ret.rows[i + 1][column(ret.rows[1], "ZIP")] = data[i].zip
            /\ (ret.request.type = "violations" /\ Len(data) = 3) => Len(ret.rows) = 4

\* C6 witness: three violations of different scores are cached and exported
C6_Witness ==
    /\ ret.handler = "export"
    /\ ret.request.type = "violations"
    /\ Len(data_cache.violations) = 3
    /\ data_cache.violations[3].score < HighScore
    /\ ret.status = "ok"
    /\ Len(ret.rows) = 4

\* C7: the records GET / renders are records of the selected source's cached
\* collection, and each satisfies every predicate the request carries: its address
\* contains the search text case-insensitively, its score is at least min_score and
\* at most max_score.
C7_FilterPredicates ==
    (ret.handler = "home" /\ ret.status = "ok") =>
        \E data \in {cached(data_cache, selected_source(ret.request.data_type))} :
            \A i \in 1..Len(ret.rendered) :
                /\ \E j \in 1..Len(data) : data[j] = ret.rendered[i]
                /\ ret.request.search # EmptyStr =>
                      contains(lower(ret.rendered[i].address), lower(ret.request.search))
                /\ ret.request.min_score # NoScore => ret.rendered[i].score >= ret.request.min_score[1]
                /\ ret.request.max_score # NoScore => ret.rendered[i].score <= ret.request.max_score[1]

\* C8: a failed request never leaves a fetcher: on a failed call, a missing key or an
\* absent table the fetcher returns the empty list or its fallback records, the run
\* goes on to its next step and to its end, and GET /health answers with the length
\* of each cached collection.
C8_FailuresContained ==
    [][/\ (run_pc = "violations" /\ run_pc' # "violations") =>
              /\ run_pc' = "lis_pendens"
              /\ arg'.failure # "none" => data_cache'.violations = << >>
       /\ (run_pc = "lis_pendens" /\ run_pc' # "lis_pendens") =>
              /\ run_pc' = "tax_delinquent"
              /\ arg'.failure \in {"get", "post"} =>
                    \E seed \in RandomSeeds :
                        data_cache'.lis_pendens = generate_realistic_lis_pendens(seed, clock)
              /\ arg'.failure = "no_table" => data_cache'.lis_pendens = << >>
       /\ (run_pc = "tax_delinquent" /\ run_pc' # "tax_delinquent") =>
              /\ run_pc' = "stamp"
              /\ arg'.failure \in {"client", "get", "status", "reader", "no_match"} =>
                    \E seed \in RandomSeeds :
                        data_cache'.tax_delinquent = generate_realistic_tax_delinquent(seed)
       /\ (run_pc = "stamp" /\ run_pc' # "stamp") =>
              /\ run_pc' = "idle"
              /\ DOMAIN data_cache'.last_updated = Sources
       /\ pc' # "failed"
       /\ ret'.handler = "health" =>
              /\ ret'.status = "ok"
              /\ \A s \in Sources : ret'.data_counts[s] = Len(cached(data_cache', s))]_vars

\* C8 witness: in a scheduled run the violations request has failed, the collection is
\* empty, the run stands before its next fetch, and GET /health reports count 0
C8_Witness ==
    /\ run_pc = "lis_pendens"
    /\ arg = [fn |-> "scrape_violations", failure |-> "request"]
    /\ data_cache.violations = << >>
    /\ ret.handler = "health"
    /\ ret.status = "ok"
    /\ ret.data_counts["violations"] = 0

\* C9: GET /, GET /mobile and GET /export complete normally for every value of the
\* parameter that selects the source, the names of other cache keys and unknown
\* names included.
C9_NeverRaises ==
    ret.handler \in {"home", "mobile", "export"} => ret.status = "ok"

\* the value of one decimal digit
digit_value(c) == (CHOOSE i \in 1..10 : DigitChars[i] = c) - 1

RECURSIVE digits_value(_, _)
\* the number the first k characters of s, all digits, write
digits_value(s, k) == IF k = 0 THEN 0 ELSE 10 * digits_value(s, k - 1) + digit_value(s[k])

\* the number of years a tax record states, in a 1-tuple, or << >> when it states none
years_delinquent(rec) ==
    IF "years" \in DOMAIN rec /\ digit_run_end(rec.years, 1) >= 1
    THEN <<digits_value(rec.years, digit_run_end(rec.years, 1))>>
    ELSE << >>

\* C10: every cached tax-delinquent record, parsed from the PDF or generated, has
\* the score min(9, 5 + years delinquent) of the years it states.
C10_TaxScore ==
    \A i \in 1..Len(data_cache.tax_delinquent) :
        \E rec \in {data_cache.tax_delinquent[i]} :
            /\ years_delinquent(rec) # << >>
            /\ rec.score = min2(9, 5 + years_delinquent(rec)[1])


\* what one call of each fetcher can return in the running application
ViolationsResults == {ViolationsFetch[api].value : api \in ApiInputs}
LisPendensResults ==
    {LisPendensFetch[html, seed, day].value : html \in LisInputs, seed \in RunSeeds, day \in 0..LastCronSlot}
TaxDelinquentResults == {TaxDelinquentFetch[doc, seed].value : doc \in PdfInputs, seed \in RunSeeds}

\* C11: the collection cached for a source is the initial empty list or the whole list
\* one call of that source's fetcher returned; it changes only in the step of a
\* refresh run that assigns it, and no handler and no other step alters it.
C11_WholeCollections ==
    [][/\ data_cache'.violations \in {<< >>} \cup ViolationsResults
       /\ data_cache'.lis_pendens \in {<< >>} \cup LisPendensResults
       /\ data_cache'.tax_delinquent \in {<< >>} \cup TaxDelinquentResults
       /\ data_cache'.violations # data_cache.violations =>
              (run_pc = "violations" /\ run_pc' = "lis_pendens")
       /\ data_cache'.lis_pendens # data_cache.lis_pendens =>
              (run_pc = "lis_pendens" /\ run_pc' = "tax_delinquent")
       /\ data_cache'.tax_delinquent # data_cache.tax_delinquent =>
              (run_pc = "tax_delinquent" /\ run_pc' = "stamp")
       /\ ret' # NoResponse => data_cache' = data_cache]_vars

\* C11 witness: during a scheduled run a manual scrape has returned records of its
\* own, and the cached lis_pendens collection is still a fetcher's list
C11_Witness ==
    /\ pc = "ready"
    /\ run_pc = "tax_delinquent"
    /\ ret.handler = "manual_scrape"
    /\ ret.body = "success"
    /\ ret.data # << >>
    /\ data_cache.lis_pendens # ret.data
    /\ Len(data_cache.lis_pendens) = LisFallbackCount

\* the successive positions of a refresh run
RunOrder == <<"idle", "violations", "lis_pendens", "tax_delinquent", "stamp", "idle">>

\* C12: a refresh run reads the clock when it starts, then fetches and stores
\* violations, then lis_pendens, then tax_delinquent, one after the other, and only
\* then sets last_updated, giving all three sources the time read at the start.
C12_RunOrder ==
    [][/\ run_pc' # run_pc => \E k \in 1..(Len(RunOrder) - 1) : <<run_pc, run_pc'>> = <<RunOrder[k], RunOrder[k + 1]>>
       /\ (run_pc = "idle" /\ run_pc' = "violations") => (run_now' = clock' /\ data_cache' = data_cache)
       /\ (run_pc # "idle" /\ run_pc' # "idle") => run_now' = run_now
       /\ (run_pc = "violations" /\ run_pc' = "lis_pendens") =>
              data_cache' = [data_cache EXCEPT !.violations = data_cache'.violations]
       /\ (run_pc = "lis_pendens" /\ run_pc' = "tax_delinquent") =>
              data_cache' = [data_cache EXCEPT !.lis_pendens = data_cache'.lis_pendens]
       /\ (run_pc = "tax_delinquent" /\ run_pc' = "stamp") =>
              data_cache' = [data_cache EXCEPT !.tax_delinquent = data_cache'.tax_delinquent]
       /\ (run_pc = "stamp" /\ run_pc' = "idle") =>
              data_cache' = [data_cache EXCEPT !.last_updated = [s \in Sources |-> run_now]]
       /\ data_cache'.last_updated # data_cache.last_updated => (run_pc = "stamp" /\ run_pc' = "idle")]_vars

\* C12 witness: a scheduled run that started at 22:00 has ended after the clock moved
\* on, and all three sources carry the time of its start
C12_Witness ==
    /\ pc = "ready"
    /\ run_pc = "idle"
    /\ DOMAIN data_cache.last_updated = Sources
    /\ \A s \in Sources : data_cache.last_updated[s] = datetime(0, 22, 0, 0, 0)
    /\ time_gt(clock, datetime(0, 22, 0, 0, 0))

\* a scheduled run stands between two of its cache writes
between_writes == pc = "ready" /\ run_pc \in {"lis_pendens", "tax_delinquent", "stamp"}

\* C13: while a scheduled run stands between two of its cache writes, GET /health and
\* GET / can be served, and the response is built from the cache as it then is: the
\* collections the run has already replaced together with the last_updated times of
\* the previous run.
C13_ReadsBetweenWrites ==
    between_writes =>
        /\ ret = NoResponse => (ENABLED get_health /\ ENABLED get_home)
        /\ \A s \in Sources : data_cache.last_updated[s] # run_now
        /\ ret.handler = "health" =>
              /\ \A s \in Sources : ret.data_counts[s] = Len(cached(data_cache, s))
              /\ \A s \in Sources : ret.last_updated[s] = isoformat(data_cache.last_updated[s])
              /\ \A s \in Sources : ret.last_updated[s] # isoformat(run_now)
        /\ (ret.handler = "home" /\ ret.status = "ok") =>
              /\ ret.total = Len(cached(data_cache, selected_source(ret.request.data_type)))
              /\ ret.last_update = strftime_short(get(data_cache.last_updated, ret.request.data_type, clock))

\* C13 witness: the 22:00 run has stored three new violations and not yet its other
\* results; GET /health reports 3 violations, the lis_pendens count of the startup
\* run, and for every source the last_updated time of the startup run
C13_Witness ==
    /\ between_writes
    /\ run_pc = "lis_pendens"
    /\ arg = [fn |-> "scrape_violations", failure |-> "none"]
    /\ run_now = datetime(0, 22, 0, 0, 0)
    /\ ret.handler = "health"
    /\ ret.data_counts["violations"] = 3
    /\ ret.data_counts["lis_pendens"] = LisFallbackCount
    /\ \A s \in Sources : ret.last_updated[s] = isoformat(datetime(0, 15, 0, 0, 1))

\* the fetcher each position of a run calls
fetcher_at(position) ==
    CASE position = "violations" -> "scrape_violations"
      [] position = "lis_pendens" -> "scrape_lis_pendens"
      [] position = "tax_delinquent" -> "scrape_tax_delinquent"

\* C14: a refresh run calls each fetcher once and goes on whatever it returned; when
\* the violations request fails or the answer holds no features, the cached violations
\* are the empty list from that step to the end of the run, whatever was stored before.
C14_NoRetryNoCarryOver ==
    [][/\ (run_pc \in {"violations", "lis_pendens", "tax_delinquent"} /\ arg' # arg) =>
              /\ arg'.fn = fetcher_at(run_pc)
              /\ run_pc' # run_pc
       /\ (run_pc \in {"violations", "lis_pendens", "tax_delinquent"} /\ run_pc' # run_pc) =>
              arg'.fn = fetcher_at(run_pc)
       /\ (run_pc = "violations" /\ run_pc' # run_pc /\ arg'.failure \in {"request", "json", "no_features"}) =>
              data_cache'.violations = << >>
       /\ run_pc \in {"lis_pendens", "tax_delinquent", "stamp"} =>
              data_cache'.violations = data_cache.violations]_vars

\* C14 witness: an earlier run has completed, and in the scheduled run in progress the
\* violations request failed: the cached violations are empty
C14_Witness ==
    /\ pc = "ready"
    /\ DOMAIN data_cache.last_updated = Sources
    /\ run_pc = "lis_pendens"
    /\ arg = [fn |-> "scrape_violations", failure |-> "json"]
    /\ data_cache.violations = << >>
    /\ data_cache.lis_pendens # << >>

\* C15: next_scrape is assigned once, by schedule_scrapers at the end of startup; no
\* scheduled run and no handler changes it afterwards, and GET /health and GET /
\* report the stored time, also once that time has passed.
C15_NextScrapeFrozen ==
    [][/\ data_cache'.next_scrape # data_cache.next_scrape =>
              (pc = "schedule" /\ pc' = "ready" /\ data_cache.next_scrape = << >>)
       /\ pc' = "ready" => data_cache'.next_scrape # << >>
       /\ ret'.handler = "health" => ret'.next_scrape = <<isoformat(data_cache'.next_scrape[1])>>
       /\ (ret'.handler = "home" /\ ret'.status = "ok") =>
              ret'.next_scrape = strftime_short(data_cache'.next_scrape[1])]_vars

\* C15 witness: the 22:00 run has run and ended, the clock is past the stored
\* next_scrape, and GET /health still reports that time
C15_Witness ==
    /\ pc = "ready"
    /\ run_pc = "idle"
    /\ data_cache.next_scrape # << >>
    /\ time_gt(clock, data_cache.next_scrape[1])
    /\ data_cache.last_updated["violations"] = datetime(0, 22, 0, 0, 0)
    /\ ret.handler = "health"
    /\ ret.next_scrape = <<isoformat(data_cache.next_scrape[1])>>

(***************************************************************************)
(* The tax fetcher called on its own                                       *)
(***************************************************************************)
\* answers of the download: those of PdfInputsWide, and failed downloads whose
\* document would have given records
TaxDocs ==
    PdfInputsWide \cup
    {pdf(TRUE, FALSE, 200, FALSE, <<page(repeat(line_parcel, 30))>>),
     pdf(FALSE, TRUE, 200, FALSE, <<page(repeat(line_parcel, 30))>>),
     pdf(FALSE, FALSE, 500, FALSE, <<page(repeat(line_parcel, 30))>>),
     pdf(FALSE, FALSE, 200, TRUE, <<page(repeat(line_parcel, 30))>>)}

TaxCalls == {[fn |-> "scrape_tax_delinquent", doc |-> d, seed |-> s] : d \in TaxDocs, s \in RandomSeeds}

InitTax ==
    /\ data_cache = EmptyCache
    /\ clock = NoTime
    /\ pc = "call"
    /\ run_pc = "idle"
    /\ run_now = NoTime
    /\ arg \in TaxCalls
    /\ ret = NoResponse

call_scrape_tax_delinquent ==
    /\ pc = "call"
    /\ arg.fn = "scrape_tax_delinquent"
    /\ \E r \in {scrape_tax_delinquent(arg.doc, arg.seed)} :
          ret' = [handler |-> "scrape_tax_delinquent", raised |-> r.raised, value |-> r.value]
    /\ pc' = "returned"
    /\ UNCHANGED <<data_cache, clock, run_pc, run_now, arg>>

NextTax ==
    \/ call_scrape_tax_delinquent
    \/ drop_result

SpecTax == InitTax /\ [][NextTax]_vars

\* the number of records of a list that come from `source`
count_source(data, source) == Cardinality({i \in 1..Len(data) : data[i].source = source})

\* C16: whatever the download and the parse give, scrape_tax_delinquent returns
\* between 20 and 100 records: the records parsed from the document come first, at
\* most 100 of them; fewer than 20 of them are followed by exactly 50 fallback
\* records, 20 or more by none; a failed download gives no parsed record.
C16_TaxResultSize ==
    (pc = "returned" /\ ret # NoResponse) =>
        \E n \in {Len(ret.value)}, parsed \in {count_source(ret.value, str_RealEstatePDF)} :
            /\ ~ret.raised
            /\ n >= TaxEnough
            /\ n <= TaxLimit
            /\ parsed <= TaxLimit
            /\ \A i \in 1..n : ret.value[i].source = str_RealEstatePDF <=> i <= parsed
            /\ \A i \in (parsed + 1)..n : ret.value[i].source = str_TaxRecords
            /\ n - parsed = IF parsed < TaxEnough THEN TaxSupplement ELSE 0
            /\ tax_failure(arg.doc) \in {"client", "get", "status", "reader", "no_match"} => parsed = 0

\* C16 witness: 19 lines of the document give records, and 69 records are returned
C16_Witness ==
    /\ pc = "returned"
    /\ arg.doc = pdf_ok(<<page(repeat(line_parcel, 19))>>)
    /\ ret # NoResponse
    /\ Len(ret.value) = TaxEnough - 1 + TaxSupplement
    /\ ret.value[TaxEnough - 1].source = str_RealEstatePDF
    /\ ret.value[TaxEnough].source = str_TaxRecords
====
